---- MODULE Spec2Model ----
\* safe_backup (Rust): path confinement and backup / restore / delete of single
\* files in the working directory, as implemented in
\* src/safe_backup_rust/src/main.rs.
\*
\* Text is a sequence of one-character strings.  A path is the sequence of its
\* components (each a text); all paths handed to the filesystem are absolute.
\* The filesystem is a function from the absolute path of every existing entry
\* (the root directory excepted) to its entry.
EXTENDS FiniteSets, Integers, Sequences, TLC

VARIABLES fs, pc, filename, outcome, pre, touched, rt, bk

vars == <<fs, pc, filename, outcome, pre, touched, rt, bk>>

----------------------------------------------------------------------------
\* Bounds of the model

\* segments per typed path in the interactive session
MaxOpSegs == 2
\* segments per path handed to sanitize_path alone
MaxSanSegs == 3
\* characters per file name handed to backup_path_for alone
MaxNameChars == 4
\* distinct file contents (1..MaxContent); 0 is the empty file
MaxContent == 2
\* commands logged per session
MaxLogLines == 2

\* input.len() > 255
MaxInputLen == 255

----------------------------------------------------------------------------
\* Text

NUL == "NUL"
Slash == "/"
Dot == "."
Space == " "

DotDot == <<".", ".">>
CurDir == <<".">>
BakText == <<"b", "a", "k">>
DotBakText == <<".", "b", "a", "k">>
YesText == <<"y", "e", "s">>
ExitText == <<"e", "x", "i", "t">>
BackupText == <<"b", "a", "c", "k", "u", "p">>
RestoreText == <<"r", "e", "s", "t", "o", "r", "e">>
DeleteText == <<"d", "e", "l", "e", "t", "e">>

LowerMap ==
  [c \in {"A","B","C","D","E","F","G","H","I","J","K","L","M",
          "N","O","P","Q","R","S","T","U","V","W","X","Y","Z"} |->
     CASE c = "A" -> "a" [] c = "B" -> "b" [] c = "C" -> "c" [] c = "D" -> "d"
       [] c = "E" -> "e" [] c = "F" -> "f" [] c = "G" -> "g" [] c = "H" -> "h"
       [] c = "I" -> "i" [] c = "J" -> "j" [] c = "K" -> "k" [] c = "L" -> "l"
       [] c = "M" -> "m" [] c = "N" -> "n" [] c = "O" -> "o" [] c = "P" -> "p"
       [] c = "Q" -> "q" [] c = "R" -> "r" [] c = "S" -> "s" [] c = "T" -> "t"
       [] c = "U" -> "u" [] c = "V" -> "v" [] c = "W" -> "w" [] c = "X" -> "x"
       [] c = "Y" -> "y" [] c = "Z" -> "z"]

\* str::to_lowercase
ToLowercase(s) ==
  [i \in 1..Len(s) |-> IF s[i] \in DOMAIN LowerMap THEN LowerMap[s[i]] ELSE s[i]]

\* str::eq_ignore_ascii_case
EqIgnoreAsciiCase(s, t) == ToLowercase(s) = ToLowercase(t)

RECURSIVE TrimStart(_)
TrimStart(s) ==
  IF s # <<>> /\ Head(s) = Space THEN TrimStart(Tail(s)) ELSE s

RECURSIVE TrimEnd(_)
TrimEnd(s) ==
  IF s # <<>> /\ s[Len(s)] = Space THEN TrimEnd(SubSeq(s, 1, Len(s) - 1)) ELSE s

\* str::trim
Trim(s) == TrimEnd(TrimStart(s))

\* str::contains(char)
Contains(s, c) == \E i \in 1..Len(s) : s[i] = c

----------------------------------------------------------------------------
\* std::path

Front(s) == SubSeq(s, 1, Len(s) - 1)
Last(s) == s[Len(s)]

\* the text split at every '/'; "a//b" gives <<"a", "", "b">>
SplitSlash(text) ==
  LET n == Len(text)
      slashes == {i \in 1..n : text[i] = Slash}
      starts == {0} \cup slashes
      stop(s) == CHOOSE c \in slashes \cup {n + 1} :
                   c > s /\ \A d \in slashes \cup {n + 1} : d > s => c <= d
      nth(k) == CHOOSE s \in starts : Cardinality({t \in starts : t < s}) = k - 1
  IN [k \in 1..Cardinality(starts) |-> SubSeq(text, nth(k) + 1, stop(nth(k)) - 1)]

\* Path::is_absolute (Unix: the path has a root)
IsAbsolute(text) == text # <<>> /\ text[1] = Slash

\* Path::components of an absolute path, the root left implicit: empty
\* segments and "." are skipped, ".." is kept
Components(text) ==
  LET segs == SplitSlash(text)
      keep == {i \in 1..Len(segs) : segs[i] # <<>> /\ segs[i] # CurDir}
      RECURSIVE Pick(_)
      Pick(i) == IF i > Len(segs) THEN <<>>
                 ELSE IF i \in keep THEN <<segs[i]>> \o Pick(i + 1)
                 ELSE Pick(i + 1)
  IN Pick(1)

\* Path::parent of an absolute path
Parent(comps) ==
  IF comps = <<>> THEN [some |-> FALSE, path |-> <<>>]
  ELSE [some |-> TRUE, path |-> Front(comps)]

\* Path::file_name
FileName(comps) ==
  IF comps = <<>> \/ Last(comps) = DotDot THEN [some |-> FALSE, name |-> <<>>]
  ELSE [some |-> TRUE, name |-> Last(comps)]

\* Path::starts_with: whole components
StartsWith(p, base) ==
  Len(base) <= Len(p) /\ SubSeq(p, 1, Len(base)) = base

\* position of the last '.' of a name, 0 if none
LastDot(name) ==
  LET dots == {i \in 1..Len(name) : name[i] = Dot}
  IN IF dots = {} THEN 0 ELSE CHOOSE i \in dots : \A j \in dots : j <= i

\* rsplit_file_at_dot: (before, after) of the last '.', with the whole name as
\* "before" when it has no dot or only a leading one
SplitAtDot(name) ==
  LET d == LastDot(name) IN
  IF name = DotDot \/ d <= 1
  THEN [before |-> name, hasAfter |-> FALSE, after |-> <<>>]
  ELSE [before |-> SubSeq(name, 1, d - 1), hasAfter |-> TRUE,
        after |-> SubSeq(name, d + 1, Len(name))]

\* Path::extension
ExtensionOf(f) ==
  IF ~f.some THEN [some |-> FALSE, ext |-> <<>>]
  ELSE [some |-> SplitAtDot(f.name).hasAfter, ext |-> SplitAtDot(f.name).after]

Extension(comps) == ExtensionOf(FileName(comps))

\* Path::file_stem
FileStemOf(f) ==
  IF ~f.some THEN [some |-> FALSE, stem |-> <<>>]
  ELSE [some |-> TRUE, stem |-> SplitAtDot(f.name).before]

FileStem(comps) == FileStemOf(FileName(comps))

\* PathBuf::set_extension
SetExtensionOf(comps, s, ext) ==
  IF ~s.some THEN comps
  ELSE Append(Front(comps),
              IF ext = <<>> THEN s.stem ELSE s.stem \o <<Dot>> \o ext)

SetExtension(comps, ext) == SetExtensionOf(comps, FileStem(comps), ext)

\* backup_path_for with the extension replaced by "bak" instead of extended
BackupPathForReplacing(file) == SetExtension(file, BakText)

\* backup_path_for
NewExt(e) == IF e.some THEN e.ext \o DotBakText ELSE BakText

BackupPathFor(file) == SetExtension(file, NewExt(Extension(file)))

----------------------------------------------------------------------------
\* Filesystem

Root == <<>>
\* std::env::current_dir(): the directory /a
Cwd == << <<"a">> >>
CwdText == <<"/", "a">>

EmptyContent == 0
Contents == 1..MaxContent

File(c) == [kind |-> "file", content |-> c, target |-> <<>>]
Dir == [kind |-> "dir", content |-> 0, target |-> <<>>]
Symlink(t) == [kind |-> "symlink", content |-> 0, target |-> t]

IsDir(f, p) == p = Root \/ (p \in DOMAIN f /\ f[p].kind = "dir")

\* Path resolution as the kernel does it: every component is looked up in the
\* directory reached so far, ".." goes to that directory's parent, a symlink
\* is replaced by the resolution of its (absolute) target.
RECURSIVE Walk(_, _, _)
Walk(f, cur, rest) ==
  IF rest = <<>> THEN [ok |-> TRUE, path |-> cur]
  ELSE IF ~IsDir(f, cur) THEN [ok |-> FALSE, path |-> <<>>]
  ELSE IF Head(rest) = DotDot
       THEN Walk(f, IF cur = Root THEN Root ELSE Front(cur), Tail(rest))
  ELSE LET nxt == Append(cur, Head(rest)) IN
       IF nxt \notin DOMAIN f THEN [ok |-> FALSE, path |-> <<>>]
       ELSE IF f[nxt].kind = "symlink"
            THEN LET t == Walk(f, Root, f[nxt].target) IN
                 IF t.ok THEN Walk(f, t.path, Tail(rest))
                 ELSE [ok |-> FALSE, path |-> <<>>]
       ELSE Walk(f, nxt, Tail(rest))

\* Path::canonicalize
Canonicalize(f, comps) == Walk(f, Root, comps)

\* Path::exists (follows symlinks)
Exists(f, comps) == Canonicalize(f, comps).ok

\* Path::is_file (follows symlinks)
IsFileAt(f, r) == r.ok /\ r.path # Root /\ f[r.path].kind = "file"

IsFile(f, comps) == IsFileAt(f, Canonicalize(f, comps))

\* the entry an open-for-write of the path lands on: the path itself with its
\* directory resolved, or the target of the symlink found there
WriteSlot(f, slot) ==
  IF slot \in DOMAIN f /\ f[slot].kind = "symlink"
  THEN [ok |-> /\ ~IsDir(f, f[slot].target)
               /\ f[slot].target \in DOMAIN f => f[f[slot].target].kind = "file",
        path |-> f[slot].target]
  ELSE [ok |-> slot \in DOMAIN f => f[slot].kind = "file", path |-> slot]

WriteIn(f, d, comps) ==
  IF comps = <<>> \/ Last(comps) = DotDot \/ ~d.ok \/ ~IsDir(f, d.path)
  THEN [ok |-> FALSE, path |-> <<>>]
  ELSE WriteSlot(f, Append(d.path, Last(comps)))

WriteTarget(f, comps) == WriteIn(f, Canonicalize(f, Front(comps)), comps)

\* what a completed file operation did to which entry (history)
NoTouch == {}

\* fs::copy: the source must resolve to a regular file; the destination is
\* opened with create + truncate, then the bytes are copied
CopyTo(f, src, dst) ==
  IF ~dst.ok
  THEN [ok |-> FALSE, fs |-> f, touched |-> NoTouch]
  ELSE [ok |-> TRUE,
        fs |-> [q \in DOMAIN f \cup {dst.path} |->
                  IF q = dst.path
                  THEN File(IF src = dst.path THEN EmptyContent ELSE f[src].content)
                  ELSE f[q]],
        touched |-> {[path |-> src, use |-> "source"],
                     [path |-> dst.path,
                      use |-> IF dst.path \in DOMAIN f THEN "overwritten"
                              ELSE "created"]}]

Copy(f, from, to) ==
  IF ~IsFile(f, from)
  THEN [ok |-> FALSE, fs |-> f, touched |-> NoTouch]
  ELSE CopyTo(f, Canonicalize(f, from).path, WriteTarget(f, to))

\* fs::remove_file: unlinks the entry itself, a symlink is not followed
RemoveSlot(f, slot) ==
  IF slot \notin DOMAIN f \/ f[slot].kind = "dir"
  THEN [ok |-> FALSE, fs |-> f, touched |-> NoTouch]
  ELSE [ok |-> TRUE,
        fs |-> [q \in DOMAIN f \ {slot} |-> f[q]],
        touched |-> {[path |-> slot, use |-> "removed"]}]

RemoveIn(f, d, comps) ==
  IF comps = <<>> \/ Last(comps) = DotDot \/ ~d.ok
  THEN [ok |-> FALSE, fs |-> f, touched |-> NoTouch]
  ELSE RemoveSlot(f, Append(d.path, Last(comps)))

RemoveFile(f, comps) == RemoveIn(f, Canonicalize(f, Front(comps)), comps)

----------------------------------------------------------------------------
\* The core

ErrEmpty == "Empty filename"
ErrTooLong == "Filename too long"
ErrInvalidChar == "Invalid character in filename"
ErrAbsolute == "Absolute paths are not allowed"
ErrInvalidPath == "Invalid path"
ErrInvalidParent == "Invalid parent directory"
ErrInvalidFileName == "Invalid file name"
ErrEscapes == "Path escapes working directory"
ErrNoSource == "Source file does not exist"
ErrSourceNotFile == "Source path is not a regular file"
ErrNoBackup == "Backup file does not exist"
ErrNoFile == "File does not exist"
ErrTargetNotFile == "Target is not a regular file"
ErrIo == "io error"

SanOk(p) == [ok |-> TRUE, path |-> p, err |-> ""]
SanErr(e) == [ok |-> FALSE, path |-> <<>>, err |-> e]

\* Path::join onto the working directory
JoinCwd(input) ==
  IF IsAbsolute(input) THEN input ELSE CwdText \o <<Slash>> \o input

\* sanitize_path, from the canonical parent and the file name on
sanitize_final(final_path) ==
  IF ~StartsWith(final_path, Cwd) THEN SanErr(ErrEscapes) ELSE SanOk(final_path)

sanitize_in(parent_can, name) ==
  IF ~parent_can.ok THEN SanErr(ErrInvalidParent)
  ELSE IF ~name.some THEN SanErr(ErrInvalidFileName)
  ELSE sanitize_final(Append(parent_can.path, name.name))

\* sanitize_path, from the joined path on
sanitize_joined(f, joined) ==
  IF ~Parent(joined).some THEN SanErr(ErrInvalidPath)
  ELSE sanitize_in(Canonicalize(f, Parent(joined).path), FileName(joined))

\* sanitize_path without the is_absolute test
sanitize_path_any_root(f, input) ==
  IF input = <<>> THEN SanErr(ErrEmpty)
  ELSE IF Len(input) > MaxInputLen THEN SanErr(ErrTooLong)
  ELSE IF Contains(input, NUL) THEN SanErr(ErrInvalidChar)
  ELSE sanitize_joined(f, Components(JoinCwd(input)))

\* sanitize_path
sanitize_path(f, input) ==
  IF input = <<>> THEN SanErr(ErrEmpty)
  ELSE IF Len(input) > MaxInputLen THEN SanErr(ErrTooLong)
  ELSE IF Contains(input, NUL) THEN SanErr(ErrInvalidChar)
  ELSE IF IsAbsolute(input) THEN SanErr(ErrAbsolute)
  ELSE sanitize_joined(f, Components(JoinCwd(input)))

OpOk(p, v, f, t) ==
  [ok |-> TRUE, err |-> "", path |-> p, ret |-> v, fs |-> f, touched |-> t]
OpErr(e, p, f, t) ==
  [ok |-> FALSE, err |-> e, path |-> p, ret |-> <<>>, fs |-> f, touched |-> t]

\* the end of do_backup / do_restore / do_delete: the result of the file
\* operation, mapped to Err or Ok
Finish(path, ret, c) ==
  IF ~c.ok THEN OpErr(ErrIo, path, c.fs, c.touched)
  ELSE OpOk(path, ret, c.fs, c.touched)

\* do_backup, from the derived backup path on
backup_to(f, path, backup) == Finish(path, backup, Copy(f, path, backup))

\* do_backup without the exists / is_file tests
backup_unchecked(f, s) ==
  IF ~s.ok THEN OpErr(s.err, <<>>, f, NoTouch)
  ELSE backup_to(f, s.path, BackupPathFor(s.path))

do_backup_unchecked(f, name) == backup_unchecked(f, sanitize_path(f, name))

\* do_backup that keeps an existing backup file instead of overwriting it
backup_kept(f, path, backup) ==
  IF IsFile(f, backup) THEN OpOk(path, backup, f, NoTouch)
  ELSE backup_to(f, path, backup)

backup_keep_first(f, s) ==
  IF ~s.ok THEN OpErr(s.err, <<>>, f, NoTouch)
  ELSE IF ~Exists(f, s.path) THEN OpErr(ErrNoSource, s.path, f, NoTouch)
  ELSE IF ~IsFile(f, s.path) THEN OpErr(ErrSourceNotFile, s.path, f, NoTouch)
  ELSE backup_kept(f, s.path, BackupPathFor(s.path))

do_backup_keep_first(f, name) == backup_keep_first(f, sanitize_path(f, name))

\* do_backup, from the sanitized path on
backup_sanitized(f, s) ==
  IF ~s.ok THEN OpErr(s.err, <<>>, f, NoTouch)
  ELSE IF ~Exists(f, s.path) THEN OpErr(ErrNoSource, s.path, f, NoTouch)
  ELSE IF ~IsFile(f, s.path) THEN OpErr(ErrSourceNotFile, s.path, f, NoTouch)
  ELSE backup_to(f, s.path, BackupPathFor(s.path))

\* do_backup
do_backup(f, name) == backup_sanitized(f, sanitize_path(f, name))

\* do_restore with the arguments of fs::copy swapped
restore_reversed_from(f, path, backup) ==
  IF ~Exists(f, backup) THEN OpErr(ErrNoBackup, path, f, NoTouch)
  ELSE Finish(path, <<>>, Copy(f, path, backup))

restore_reversed(f, s) ==
  IF ~s.ok THEN OpErr(s.err, <<>>, f, NoTouch)
  ELSE restore_reversed_from(f, s.path, BackupPathFor(s.path))

do_restore_reversed(f, name) == restore_reversed(f, sanitize_path(f, name))

\* do_restore without the test that the backup exists
restore_unchecked(f, s) ==
  IF ~s.ok THEN OpErr(s.err, <<>>, f, NoTouch)
  ELSE Finish(s.path, <<>>, Copy(f, BackupPathFor(s.path), s.path))

do_restore_unchecked(f, name) == restore_unchecked(f, sanitize_path(f, name))

\* do_restore, from the derived backup path on
restore_from(f, path, backup) ==
  IF ~Exists(f, backup) THEN OpErr(ErrNoBackup, path, f, NoTouch)
  ELSE Finish(path, <<>>, Copy(f, backup, path))

\* do_restore, from the sanitized path on
restore_sanitized(f, s) ==
  IF ~s.ok THEN OpErr(s.err, <<>>, f, NoTouch)
  ELSE restore_from(f, s.path, BackupPathFor(s.path))

\* do_restore
do_restore(f, name) == restore_sanitized(f, sanitize_path(f, name))

\* do_delete that removes the backup file along with the file
remove_both(path, r, b) ==
  IF ~r.ok THEN OpErr(ErrIo, path, r.fs, r.touched)
  ELSE OpOk(path, <<>>, b.fs, r.touched \cup b.touched)

delete_with_backup(f, s) ==
  IF ~s.ok THEN OpErr(s.err, <<>>, f, NoTouch)
  ELSE IF ~Exists(f, s.path) THEN OpErr(ErrNoFile, s.path, f, NoTouch)
  ELSE IF ~IsFile(f, s.path) THEN OpErr(ErrTargetNotFile, s.path, f, NoTouch)
  ELSE remove_both(s.path, RemoveFile(f, s.path),
                   RemoveFile(RemoveFile(f, s.path).fs, BackupPathFor(s.path)))

do_delete_with_backup(f, name) == delete_with_backup(f, sanitize_path(f, name))

\* do_delete, from the sanitized path on
delete_sanitized(f, s) ==
  IF ~s.ok THEN OpErr(s.err, <<>>, f, NoTouch)
  ELSE IF ~Exists(f, s.path) THEN OpErr(ErrNoFile, s.path, f, NoTouch)
  ELSE IF ~IsFile(f, s.path) THEN OpErr(ErrTargetNotFile, s.path, f, NoTouch)
  ELSE Finish(s.path, <<>>, RemoveFile(f, s.path))

\* do_delete
do_delete(f, name) == delete_sanitized(f, sanitize_path(f, name))

----------------------------------------------------------------------------
\* Inputs

NameA == <<"a">>
NameABak == <<"a", ".", "b", "a", "k">>

\* the segments typed paths are made of; the empty segment gives a leading,
\* doubled or trailing '/'
Segments == {<<>>, CurDir, DotDot, NameA, NameABak}

RECURSIVE JoinSegs(_)
JoinSegs(segs) ==
  IF Len(segs) = 1 THEN segs[1]
  ELSE segs[1] \o <<Slash>> \o JoinSegs(Tail(segs))

PathsOver(S, n) ==
  UNION {{JoinSegs(segs) : segs \in [1..k -> S]} : k \in 1..n}

PathTexts(n) == PathsOver(Segments, n)

\* MaxInputLen characters 'a'
Pad == [i \in 1..MaxInputLen |-> "a"]

\* lines typed at the file name prompt
FilenameLines ==
  PathsOver({DotDot, NameA, NameABak}, MaxOpSegs)
    \cup {<<>>, CurDir, <<Dot, Slash, "a">>, <<Slash, "a">>, <<"a", Slash>>,
          <<Space, "a", Space>>, ExitText, <<"E", "x", "i", "t">>}

\* lines typed at the command prompt
CommandLines ==
  {BackupText, RestoreText, DeleteText, ExitText,
   <<"B", "a", "c", "k", "u", "p">>, <<"D", "E", "L", "E", "T", "E">>,
   <<"E", "X", "I", "T">>, <<"c", "o", "p", "y">>, <<>>}

\* lines typed at the confirmation prompt
ConfirmLines ==
  {YesText, <<"Y", "E", "S">>, <<"Y", "e", "s">>, <<Space, "y", "e", "s">>,
   <<"n", "o">>, <<>>}

\* strings handed to sanitize_path alone: short paths, paths with a NUL, and
\* paths around the length limit
SanInputs ==
  PathTexts(MaxSanSegs)
    \cup {t \o <<NUL>> : t \in PathTexts(1)}
    \cup {t \o <<NUL>> \o Pad : t \in PathTexts(1)}
    \cup {t \o Pad : t \in PathTexts(2)}
    \cup {t \o <<Slash>> \o Tail(Pad) : t \in PathTexts(1)}
    \cup {t \o Tail(Pad) : t \in {<<>>, <<Slash>>, <<Slash, Slash>>}}

\* file names handed to backup_path_for alone
NameChars == {"a", "t", Dot}
FileNames ==
  UNION {[1..k -> NameChars] : k \in 1..MaxNameChars} \ {CurDir, DotDot}

----------------------------------------------------------------------------
\* Initial filesystems.  Outside the working directory /a there is the file
\* /a.bak; inside it the entry "a" is a regular file (alone, or next to a
\* directory "a.bak"), a directory holding a file, a symlink to the outside
\* file, or a symlink to the outside directory /.

OutsideFile == << NameABak >>

Base == (Cwd :> Dir) @@ (OutsideFile :> File(1))

InCwd(name) == Append(Cwd, name)

Layouts ==
  { Base @@ (InCwd(NameA) :> File(1)),
    Base @@ (InCwd(NameA) :> Dir) @@ (Append(InCwd(NameA), NameA) :> File(1)),
    Base @@ (InCwd(NameA) :> Symlink(OutsideFile)),
    Base @@ (InCwd(NameA) :> Symlink(Root)),
    Base @@ (InCwd(NameA) :> File(1)) @@ (InCwd(NameABak) :> Dir) }

----------------------------------------------------------------------------
\* Bookkeeping of the session (history, not program state)

NoOutcome ==
  [op |-> "none", status |-> "none", err |-> "", path |-> <<>>, ret |-> <<>>,
   token |-> <<>>]

Outcome(op, r, token) ==
  [op |-> op, status |-> IF r.ok THEN "success" ELSE "failure", err |-> r.err,
   path |-> r.path, ret |-> r.ret, token |-> token]

\* the file operations that reached an entry outside the working directory
Outside(t) == {e \in t : ~StartsWith(e.path, Cwd)}

\* the entries an operation wrote, created or removed
Mutated(t) == {e.path : e \in {x \in t : x.use # "source"}}

PathOr(r, p) == IF r.ok THEN r.path ELSE p
RealPath(f, p) == PathOr(Canonicalize(f, p), p)

\* content of the file a path leads to
Content(f, p) == f[RealPath(f, p)].content

\* the path is a regular file itself, not a symlink to one
IsRegular(f, p) == p \in DOMAIN f /\ f[p].kind = "file"

\* rt follows one round trip: 1 after a successful backup(F) of a regular file,
\* 2 once F was overwritten, 3 when restore(F) is the next command
NoRt == [stage |-> 0, path |-> <<>>, content |-> 0]

\* bk[F] is the content F had at its latest successful backup, and whether the
\* backup file of F was left alone since
Taint(b, f, paths) ==
  [g \in DOMAIN b |->
     IF RealPath(f, BackupPathFor(g)) \in paths
     THEN [b[g] EXCEPT !.intact = FALSE] ELSE b[g]]

----------------------------------------------------------------------------
\* The interactive session: run_cli

\* prompt: the line read, trimmed
Prompt(line) == Trim(line)

\* log_action: one more line in logfile.txt of the working directory (the file
\* is modelled by its number of lines); a failure to open it is ignored
LogName == <<"l", "o", "g", "f", "i", "l", "e", ".", "t", "x", "t">>
LogPath == Append(Cwd, LogName)

LogLines(f) == IF LogPath \in DOMAIN f THEN f[LogPath].content ELSE 0

log_action(f) ==
  LET w == WriteTarget(f, LogPath) IN
  IF ~w.ok THEN f
  ELSE [q \in DOMAIN f \cup {w.path} |->
          IF q = w.path THEN File(LogLines(f) + 1) ELSE f[q]]

Init ==
  /\ fs \in Layouts
  /\ pc = "filename"
  /\ filename = <<>>
  /\ outcome = NoOutcome
  /\ pre = fs
  /\ touched = {}
  /\ rt = NoRt
  /\ bk = <<>>

\* let filename = prompt(..)?; if filename.eq_ignore_ascii_case("exit") { break; }
\* (a session is followed for MaxLogLines logged commands)
PromptFilename(line) ==
  /\ pc = "filename"
  /\ LogLines(fs) < MaxLogLines
  /\ filename' = Prompt(line)
  /\ pc' = IF EqIgnoreAsciiCase(Prompt(line), ExitText) THEN "exited" ELSE "command"
  /\ UNCHANGED <<fs, outcome, pre, touched, rt, bk>>

\* if command.eq_ignore_ascii_case("exit") { break; }
CommandExit(line) ==
  /\ pc = "command"
  /\ EqIgnoreAsciiCase(Prompt(line), ExitText)
  /\ pc' = "exited"
  /\ UNCHANGED <<fs, filename, outcome, pre, touched, rt, bk>>

IsCommand(line, text) ==
  /\ ~EqIgnoreAsciiCase(Prompt(line), ExitText)
  /\ ToLowercase(Prompt(line)) = text

\* the state after do_backup returned r
BackupDone(r) ==
  /\ fs' = r.fs
  /\ pre' = fs
  /\ outcome' = Outcome("backup", r, <<>>)
  /\ touched' = touched \cup Outside(r.touched)
  /\ rt' = IF r.ok /\ IsRegular(fs, r.path)
           THEN [stage |-> 1, path |-> r.path, content |-> fs[r.path].content]
           ELSE NoRt
  /\ bk' = IF r.ok
           THEN (r.path :> [content |-> Content(fs, r.path), intact |-> TRUE])
                  @@ Taint(bk, fs, Mutated(r.touched))
           ELSE Taint(bk, fs, Mutated(r.touched))

\* "backup" => do_backup(&filename)
Backup(line) ==
  /\ pc = "command"
  /\ IsCommand(line, BackupText)
  /\ BackupDone(do_backup(fs, filename))
  /\ pc' = "report"
  /\ UNCHANGED filename

\* the state after do_restore returned r
RestoreDone(r) ==
  /\ fs' = r.fs
  /\ pre' = fs
  /\ outcome' = Outcome("restore", r, <<>>)
  /\ touched' = touched \cup Outside(r.touched)
  /\ rt' = IF rt.stage = 2 /\ r.path = rt.path THEN [rt EXCEPT !.stage = 3]
           ELSE NoRt
  /\ bk' = Taint(bk, fs, Mutated(r.touched))

\* "restore" => do_restore(&filename)
Restore(line) ==
  /\ pc = "command"
  /\ IsCommand(line, RestoreText)
  /\ RestoreDone(do_restore(fs, filename))
  /\ pc' = "report"
  /\ UNCHANGED filename

\* "delete" => let confirm = prompt(..)?
DeletePrompt(line) ==
  /\ pc = "command"
  /\ IsCommand(line, DeleteText)
  /\ pc' = "confirm"
  /\ UNCHANGED <<fs, filename, outcome, pre, touched, rt, bk>>

\* println!("Deletion cancelled."); continue
DeleteCancelled(confirm) ==
  /\ outcome' = [NoOutcome EXCEPT !.op = "delete", !.status = "cancelled",
                                  !.token = confirm]
  /\ UNCHANGED <<fs, touched, bk>>

\* the state after do_delete returned r
DeleteDone(confirm, r) ==
  /\ fs' = r.fs
  /\ outcome' = Outcome("delete", r, confirm)
  /\ touched' = touched \cup Outside(r.touched)
  /\ bk' = Taint(bk, fs, Mutated(r.touched))

\* the confirmation compared without to_lowercase
DeleteConfirmCaseSensitive(line) ==
  /\ pc = "confirm"
  /\ IF Trim(Prompt(line)) # YesText
     THEN DeleteCancelled(Prompt(line))
     ELSE DeleteDone(Prompt(line), do_delete(fs, filename))
  /\ pre' = fs
  /\ rt' = NoRt
  /\ pc' = "report"
  /\ UNCHANGED filename

\* if confirm.to_lowercase().trim() != "yes" { continue; }  do_delete(&filename)
DeleteConfirm(line) ==
  /\ pc = "confirm"
  /\ IF Trim(ToLowercase(Prompt(line))) # YesText
     THEN DeleteCancelled(Prompt(line))
     ELSE DeleteDone(Prompt(line), do_delete(fs, filename))
  /\ pre' = fs
  /\ rt' = NoRt
  /\ pc' = "report"
  /\ UNCHANGED filename

\* _ => eprintln!("Unknown command ...")
UnknownCommand(line) ==
  /\ pc = "command"
  /\ ~EqIgnoreAsciiCase(Prompt(line), ExitText)
  /\ ToLowercase(Prompt(line)) \notin {BackupText, RestoreText, DeleteText}
  /\ outcome' = [NoOutcome EXCEPT !.op = "unknown", !.status = "unknown"]
  /\ pc' = "report"
  /\ UNCHANGED <<fs, filename, pre, touched, rt, bk>>

\* let _ = log_action(..), then the next round of the loop
LogAction ==
  /\ pc = "report"
  /\ outcome.status \in {"success", "failure"}
  /\ fs' = log_action(fs)
  /\ pre' = fs'
  /\ rt' = IF rt.stage = 3 THEN NoRt ELSE rt
  /\ filename' = <<>>
  /\ outcome' = NoOutcome
  /\ pc' = "filename"
  /\ UNCHANGED <<touched, bk>>

\* println!("Deletion cancelled."); continue  /  the unknown-command arm
Continue ==
  /\ pc = "report"
  /\ outcome.status \in {"cancelled", "unknown"}
  /\ filename' = <<>>
  /\ outcome' = NoOutcome
  /\ pc' = "filename"
  /\ UNCHANGED <<fs, pre, touched, rt, bk>>

\* Between two commands another program rewrites a file of the working
\* directory (fs::write in the tests)
ExternalWrite ==
  \E p \in DOMAIN fs, c \in Contents :
    /\ pc = "filename"
    /\ IsRegular(fs, p) /\ StartsWith(p, Cwd) /\ p # LogPath
    /\ fs' = [fs EXCEPT ![p] = File(c)]
    /\ pre' = fs'
    /\ rt' = IF rt.stage \in {1, 2} /\ p = rt.path THEN [rt EXCEPT !.stage = 2]
             ELSE NoRt
    /\ bk' = Taint(bk, fs, {p})
    /\ UNCHANGED <<pc, filename, outcome, touched>>

Next ==
  \/ \E line \in FilenameLines : PromptFilename(line)
  \/ \E line \in CommandLines : CommandExit(line)
  \/ \E line \in CommandLines : Backup(line)
  \/ \E line \in CommandLines : Restore(line)
  \/ \E line \in CommandLines : DeletePrompt(line)
  \/ \E line \in ConfirmLines : DeleteConfirm(line)
  \/ \E line \in CommandLines : UnknownCommand(line)
  \/ LogAction
  \/ Continue
  \/ ExternalWrite

Spec == Init /\ [][Next]_vars

----------------------------------------------------------------------------
\* sanitize_path on its own: one call on one of the initial filesystems

SanInit ==
  /\ fs \in Layouts
  /\ pc = "sanitize"
  /\ filename = <<>>
  /\ outcome = NoOutcome
  /\ pre = fs
  /\ touched = {}
  /\ rt = NoRt
  /\ bk = <<>>

SanitizeDone(s) ==
  outcome' = [NoOutcome EXCEPT !.op = "sanitize",
                               !.status = IF s.ok THEN "success" ELSE "failure",
                               !.err = s.err, !.path = s.path]

SanitizeCall(input) ==
  /\ pc = "sanitize"
  /\ filename' = input
  /\ SanitizeDone(sanitize_path(fs, input))
  /\ pc' = "sanitized"
  /\ UNCHANGED <<fs, pre, touched, rt, bk>>

SanNext == \E input \in SanInputs : SanitizeCall(input)

SanSpec == SanInit /\ [][SanNext]_vars

\* backup_path_for on its own: one call on a path in or below the working
\* directory whose last component is a file name or ".."

BakInit ==
  /\ fs \in Layouts
  /\ pc = "derive"
  /\ filename = <<>>
  /\ outcome = NoOutcome
  /\ pre = fs
  /\ touched = {}
  /\ rt = NoRt
  /\ bk = <<>>

DeriveCall(dir, name) ==
  /\ pc = "derive"
  /\ filename' = name
  /\ outcome' = [NoOutcome EXCEPT !.op = "backup_path_for",
                                  !.status = "success",
                                  !.path = Append(dir, name),
                                  !.ret = BackupPathFor(Append(dir, name))]
  /\ pc' = "derived"
  /\ UNCHANGED <<fs, pre, touched, rt, bk>>

BakNext ==
  \E dir \in {Cwd, InCwd(NameA)} : \E name \in FileNames \cup {DotDot} :
    DeriveCall(dir, name)

BakSpec == BakInit /\ [][BakNext]_vars

----------------------------------------------------------------------------
\* Properties

HasParentSegment(text) ==
  \E i \in 1..Len(SplitSlash(text)) : SplitSlash(text)[i] = DotDot

Reported(op) == pc = "report" /\ outcome.op = op

Unchanged == fs = pre

\* C1 (SanSpec): sanitize never returns a path for an input that has a ".."
\* segment, whether leading, in the middle or trailing.
C1_ParentSegmentRejected ==
  pc = "sanitized" /\ HasParentSegment(filename) => outcome.status = "failure"

\* C2 (Spec): after any sequence of backup, restore and delete calls no file
\* outside the working directory was used as a copy source, created,
\* overwritten or removed, symlinks inside the working directory included.
C2_NothingOutsideTouched == touched = {}

DeleteConfirmed(s) ==
  (/\ s.ok /\ IsRegular(pre, s.path)
   /\ outcome.token \in {YesText, <<"Y", "E", "S">>, <<"Y", "e", "s">>})
    => outcome.status = "success" /\ s.path \notin DOMAIN fs

C4_DeleteConfirmation ==
  Reported("delete") =>
    /\ ~EqIgnoreAsciiCase(outcome.token, YesText)
         => outcome.status = "cancelled" /\ Unchanged
    /\ DeleteConfirmed(sanitize_path(pre, filename))
    /\ ~Unchanged => EqIgnoreAsciiCase(outcome.token, YesText)

C4_DeleteConfirmationWitness ==
  /\ Reported("delete") /\ outcome.status = "success"
  /\ outcome.token = <<"Y", "E", "S">>
  /\ IsRegular(pre, outcome.path)
  /\ outcome.path \notin DOMAIN fs

\* C5 (Spec): restore(F) when the backup path of F does not exist fails with
\* "Backup file does not exist" and changes no file.
NoBackupReported(s) ==
  (s.ok /\ ~Exists(pre, BackupPathFor(s.path)))
    => outcome.status = "failure" /\ outcome.err = ErrNoBackup /\ Unchanged

C5_RestoreWithoutBackup ==
  Reported("restore") => NoBackupReported(sanitize_path(pre, filename))

C5_RestoreWithoutBackupWitness ==
  /\ Reported("restore") /\ outcome.err = ErrNoBackup
  /\ IsRegular(pre, outcome.path)
  /\ ~Exists(pre, BackupPathFor(outcome.path))
  /\ Unchanged

\* C6 (Spec): fail-closed.  When the filename is rejected by sanitize_path,
\* the target does not exist or is not a regular file (backup, delete), or the
\* backup is missing (restore), the operation fails with that error and the
\* filesystem is what it was before the call.
FailsWith(e) == outcome.status = "failure" /\ outcome.err = e /\ Unchanged

PreconditionsReported(s, missing, notfile) ==
  /\ ~s.ok => FailsWith(s.err)
  /\ outcome.op = "backup" /\ missing => FailsWith(ErrNoSource)
  /\ outcome.op = "backup" /\ notfile => FailsWith(ErrSourceNotFile)
  /\ outcome.op = "delete" /\ missing => FailsWith(ErrNoFile)
  /\ outcome.op = "delete" /\ notfile => FailsWith(ErrTargetNotFile)
  /\ (outcome.op = "restore" /\ s.ok /\ ~Exists(pre, BackupPathFor(s.path)))
       => FailsWith(ErrNoBackup)

PreconditionsOf(s) ==
  PreconditionsReported(s, s.ok /\ ~Exists(pre, s.path),
                        s.ok /\ Exists(pre, s.path) /\ ~IsFile(pre, s.path))

C6_FailClosed ==
  (pc = "report" /\ outcome.status \in {"success", "failure"}) =>
    PreconditionsOf(sanitize_path(pre, filename))

C6_FailClosedWitness ==
  /\ Reported("backup") /\ outcome.err = ErrSourceNotFile
  /\ IsDir(pre, outcome.path)
  /\ Unchanged

\* C7 (BakSpec): for a path whose last component is a file name,
\* backup_path_for gives the same path with ".bak" appended to that name,
\* extension or not, whatever the filesystem is.
C7_BackupPathAppendsBak ==
  (pc = "derived" /\ filename # DotDot) =>
    outcome.ret = Append(Front(outcome.path), filename \o DotBakText)

C7_BackupPathAppendsBakWitness ==
  /\ pc = "derived"
  /\ filename = <<"a", ".", "t">>
  /\ Last(outcome.ret) = <<"a", ".", "t", ".", "b", "a", "k">>

\* C8 as stated (SanSpec): every absolute input, those longer than 255
\* characters or holding a NUL included, fails with "Absolute paths are not
\* allowed".
C8_AbsoluteRejectedAlways ==
  (pc = "sanitized" /\ filename # <<>> /\ filename[1] = Slash)
    => outcome.status = "failure" /\ outcome.err = ErrAbsolute

\* C8 amended (SanSpec): every absolute input of at most 255 bytes (one per
\* character here) and without a NUL fails with "Absolute paths are not
\* allowed".
C8_AbsoluteRejected ==
  (/\ pc = "sanitized" /\ filename # <<>> /\ filename[1] = Slash
   /\ Len(filename) <= 255 /\ \A i \in 1..Len(filename) : filename[i] # NUL)
    => outcome.status = "failure" /\ outcome.err = ErrAbsolute

C8_AbsoluteRejectedWitness ==
  /\ pc = "sanitized" /\ Len(filename) = 255 /\ filename[1] = Slash
  /\ outcome.err = ErrAbsolute

\* C9 (Spec): a confirmed delete of an existing regular file F removes F and
\* nothing else; every other entry, F's backup file in particular, is there
\* afterwards as it was.
C9_DeleteRemovesOnlyTarget ==
  (Reported("delete") /\ outcome.status = "success" /\ IsRegular(pre, outcome.path))
    => /\ DOMAIN fs = DOMAIN pre \ {outcome.path}
       /\ \A q \in DOMAIN fs : fs[q] = pre[q]

C9_DeleteRemovesOnlyTargetWitness ==
  /\ Reported("delete") /\ outcome.status = "success"
  /\ IsRegular(pre, outcome.path)
  /\ outcome.path \notin DOMAIN fs
  /\ IsRegular(fs, BackupPathFor(outcome.path))

BackupWrote(b) ==
  /\ outcome.ret = BackupPathFor(outcome.path)
  /\ DOMAIN fs = DOMAIN pre \cup {b}
  /\ \A q \in DOMAIN pre \ {b} : fs[q] = pre[q]
  /\ fs[b] = File(Content(pre, outcome.path))

====
